---- MODULE Spec2Model ----
(***************************************************************************)
(* Model of two units of the FormKit repository:                           *)
(*   - the CLI `export` command (exportInput, loadInput, guessLang,        *)
(*     upsertDir, error), as a Node.js process: one main async chain       *)
(*     (exportInput -> upsertDir) and one detached async chain (the        *)
(*     loadInput promise, which exportInput does not await);               *)
(*   - the configuration factory defineFormKitConfig.                      *)
(* Each action is one run-to-completion segment of JavaScript code or a    *)
(* part of one; segments that belong to the same synchronous run are       *)
(* chained through pc and cannot be interleaved with an I/O completion.    *)
(***************************************************************************)
EXTENDS Integers, Sequences, FiniteSets, TLC

\* ------------------------------------------------------------------------
\* Values
\* ------------------------------------------------------------------------

\* JavaScript `undefined` as a prompt answer or a void return value
Undefined == "undefined"

\* An optional string (an option of the command line, loadInput's fileData):
\* None is undefined or null, Some(s) is the string s
None == << >>
Some(s) == <<s>>
strOf(o) == o[1]

\* The registry imported from @formkit/inputs, cut down to one of its keys
inputs == {"text"}

\* Positional <inputName> arguments tried
InputNames == inputs \cup {"not-a-real-input"}

\* Values of options.lang
LangFlags == {None, Some(""), Some("ts"), Some("js")}

\* Values of options.dir
DirFlags == {None, Some(""), Some("out")}

\* Extensions of the files under inputs/dist/exports
Langs == {"ts", "js"}

\* UTF-8 contents a source file can have (the empty file included)
Contents == {"", "export const input = {}"}

\* What a path under inputs/dist/exports holds: nothing (existsSync is false),
\* something readFile rejects on (a directory, an unreadable file), or a
\* regular readable file with its contents
NoFile == <<"ENOENT">>
Unreadable == <<"EISDIR">>
File(c) == <<"file", c>>
IsFile(st) == st[1] = "file"
contentOf(st) == st[2]
FileStates == {NoFile, Unreadable} \cup { File(c) : c \in Contents }

\* Answers the confirm prompt can resolve with (undefined: prompt aborted)
Answers == {"true", "false", Undefined}

\* Directories the command can resolve as output directory
Dirs == {"./inputs", "out"}

VARIABLES
  files,       \* file system: export path (name, lang) -> what the path holds
  tsconfig,    \* file system: cwd/tsconfig.json exists
  dirs,        \* file system: directories that exist
  writable,    \* file system: directories that pass access(W_OK) once they exist
  pc,          \* position of the main chain (exportInput / upsertDir);
               \* "exit" once the main chain has called process.exit
  proc,        \* "running" or "exited"
  exitCode,    \* exit status of the process
  inputName,   \* argument of exportInput ("" while pc = "idle")
  options,     \* argument of exportInput: <<options.dir, options.lang>>
  lang,        \* loadInput's local `lang` after line 79 ("" before: line 79
               \* never leaves a falsy value in it)
  fileData,    \* loadInput's local `fileData`: None (null) or Some(string)
  validDir,    \* exportInput's local `validDir`
  pending,     \* suspending I/O operations started and not yet completed
  mkdirOutcome, \* what the operating system made of the mkdir call: "none"
               \* (not called, or not carried out yet), "ok" or "error"
  trace,       \* every file-system call, prompt and print, in program order
  accessors,   \* configuration factory: config captured by each accessor
  calls,       \* configuration factory: number of calls of each accessor
  invocations, \* configuration factory: number of invocations of each function
  results      \* configuration factory: log of accessor calls

cliVars == <<files, tsconfig, dirs, writable, pc, proc, exitCode, inputName,
             options, lang, fileData, validDir, pending, mkdirOutcome, trace>>
cfgVars == <<accessors, calls, invocations, results>>
vars == <<files, tsconfig, dirs, writable, pc, proc, exitCode, inputName,
          options, lang, fileData, validDir, pending, mkdirOutcome, trace,
          accessors, calls, invocations, results>>

\* ------------------------------------------------------------------------
\* CLI: pure helpers
\* ------------------------------------------------------------------------

\* A logged event: its kind (the function called) and its argument
Ev(e, a) == <<e, a>>
evOf(x) == x[1]
argOf(x) == x[2]

\* options: the pair of options.dir and options.lang, each an optional string

\* A value `!x` is false for: a string that is given and not empty
Truthy(o) == o # None /\ o # Some("")

Options(d, l) == <<d, l>>
optDir(opts) == opts[1]
optLang(opts) == opts[2]

\* Mutation of InRegistry: the registry check lets every name through
InRegistryAlways(name) == TRUE

\* `inputName in inputs`
InRegistry(name) == name \in inputs

\* resolve(process.cwd(), 'tsconfig.json')
TsconfigPath == <<"cwd", "tsconfig.json">>

\* Mutation of guessLang: tsconfig.json is not looked at
guessLangAlwaysTs(exists) == "ts"

\* guessLang: existsSync(tsconfig) ? 'ts' : 'js'
guessLang(exists) == IF exists THEN "ts" ELSE "js"

\* resolve(__dirname, `../../inputs/dist/exports/${name}.${lang}`)
localFile(name, l) == <<"__dirname/../../inputs/dist/exports", name, l>>

\* options.dir || './inputs'
outDirOf(opts) == IF Truthy(optDir(opts)) THEN strOf(optDir(opts)) ELSE "./inputs"

\* options.lang || 'ts'
exportLang(opts) == IF Truthy(optLang(opts)) THEN strOf(optLang(opts)) ELSE "ts"

\* !fileData, for fileData null or a string
Falsy(data) == ~Truthy(data)

\* error(message): the events of red(message), console.error(...), process.exit(1)
errorEvents(message) ==
  << Ev("red", message), Ev("console.error", <<Undefined>>), Ev("process.exit", <<"1">>) >>

MsgNotPart(name) ==
  <<"Cannot export", name, "because it is not part of the @formkit/inputs package.">>
MsgUnableToLocate(name, l) == <<"Unable to locate">> \o localFile(name, l)
MsgCheckingCdn == <<"Checking CDN for an exportable input.">>
MsgUnableToLoad(name, l) == <<"Unable to load export", name, l>>
MsgNotWritable(dir) == <<dir, "is not a writable directory.">>
MsgNotCreated == <<"Directory not created - no input was exported.">>
MsgUnableToCreate(dir) == <<"Unable to create directory", dir>>
MsgExporting(dir, name, l) == <<"Exporting", dir, name, l>>
MsgDoesNotExist(dir) == <<dir, "does not exist. Create it?">>

\* ------------------------------------------------------------------------
\* CLI: state
\* ------------------------------------------------------------------------

\* What the file system holds at localFile(name, l)
fileAt(name, l) == IF <<name, l>> \in DOMAIN files THEN files[<<name, l>>] ELSE NoFile

\* Mutation of existsSync: the source file is taken to exist
existsSyncAlways(name, l) == TRUE

\* existsSync(localFile)
existsSync(name, l) == fileAt(name, l) # NoFile

\* Mutation of readFile: the file of the other extension is read
readFileOtherLang(name, l) == fileAt(name, IF l = "ts" THEN "js" ELSE "ts")

\* readFile(localFile, { encoding: 'utf8' }): the state of the path read; the
\* promise fulfils with the contents of a file and rejects on anything else
readFile(name, l) == fileAt(name, l)

\* Positions of the main chain that lie inside the first synchronous run of
\* exportInput; no I/O completion callback can run between them.
SyncPositions == {"loadInput", "upsertDir"}

\* The process has not been terminated
Running == proc = "running"

InitFs ==
  /\ files \in [inputs \X Langs -> FileStates]
  /\ tsconfig \in BOOLEAN
  /\ dirs \in SUBSET Dirs
  /\ writable \in SUBSET Dirs

InitCli ==
  /\ pc = "idle"
  /\ proc = "running"
  /\ exitCode = 0
  /\ inputName = ""
  /\ options = Options(None, None)
  /\ lang = ""
  /\ fileData = None
  /\ validDir = "unset"
  /\ pending = {}
  /\ mkdirOutcome = "none"
  /\ trace = << >>

\* process.exit(1) inside error(): the process is gone, nothing pending survives
Exit1 ==
  /\ proc' = "exited"
  /\ exitCode' = 1
  /\ pending' = {}

\* exportInput, lines 54-62: the registry check
ExportInput(name, opts) ==
  /\ Running /\ pc = "idle"
  /\ inputName' = name
  /\ options' = opts
  /\ IF ~InRegistry(name)
       THEN /\ trace' = trace \o errorEvents(MsgNotPart(name))
            /\ pc' = "exit"
            /\ Exit1
       ELSE /\ pc' = "loadInput"
            /\ UNCHANGED <<trace, proc, exitCode, pending>>
  /\ UNCHANGED <<files, tsconfig, dirs, writable, lang, fileData, validDir>>
  /\ UNCHANGED mkdirOutcome
  /\ UNCHANGED cfgVars

\* loadInput, lines 79-89 and, when the file is missing, 91-96: the part of
\* loadInput that runs synchronously inside exportInput's call at line 63
LoadInputStart ==
  /\ Running /\ pc = "loadInput"
  /\ LET guessed == ~Truthy(optLang(options))
         l == IF guessed THEN guessLang(tsconfig) ELSE strOf(optLang(options))
         t1 == IF guessed THEN trace \o <<Ev("existsSync", TsconfigPath)>> ELSE trace
         t2 == t1 \o <<Ev("existsSync", localFile(inputName, l))>>
     IN /\ lang' = l
        /\ IF existsSync(inputName, l)
             THEN /\ trace' = t2 \o <<Ev("readFile", localFile(inputName, l))>>
                  /\ pending' = pending \cup {"readFile"}
                  /\ pc' = "upsertDir"
                  /\ UNCHANGED <<proc, exitCode>>
             ELSE /\ trace' = t2 \o <<Ev("warning", MsgUnableToLocate(inputName, l)),
                                      Ev("info", MsgCheckingCdn)>>
                                 \o errorEvents(MsgUnableToLoad(inputName, l))
                  /\ pc' = "exit"
                  /\ Exit1
  /\ UNCHANGED <<files, tsconfig, dirs, writable, inputName, options, fileData, validDir>>
  /\ UNCHANGED mkdirOutcome
  /\ UNCHANGED cfgVars

\* exportInput lines 64-68 and upsertDir lines 118-123 / 131-132: the rest of
\* the first synchronous run, up to upsertDir's first await
UpsertDirStart ==
  /\ Running /\ pc = "upsertDir"
  /\ LET dir == outDirOf(options)
         t1 == trace \o <<Ev("console.log", <<"[object Promise]">>),
                          Ev("existsSync", <<"cwd", dir>>)>>
     IN IF dir \notin dirs
          THEN /\ trace' = t1 \o <<Ev("prompts", MsgDoesNotExist(dir))>>
               /\ pending' = pending \cup {"prompts"}
               /\ pc' = "prompts"
          ELSE /\ trace' = t1 \o <<Ev("access", <<"cwd", dir>>)>>
               /\ pending' = pending \cup {"access"}
               /\ pc' = "access"
  /\ UNCHANGED <<files, tsconfig, dirs, writable, proc, exitCode, inputName,
                 options, lang, fileData, validDir>>
  /\ UNCHANGED mkdirOutcome
  /\ UNCHANGED cfgVars

\* loadInput, lines 86 and 91-100: readFile fulfils and loadInput resumes
ReadFileDone ==
  /\ Running /\ "readFile" \in pending /\ pc \notin SyncPositions
  /\ IsFile(readFile(inputName, lang))
  /\ LET data == Some(contentOf(readFile(inputName, lang)))
         t1 == trace \o <<Ev("readFile.done", localFile(inputName, lang))>>
     IN /\ fileData' = data
        /\ IF Falsy(data)
             THEN /\ trace' = t1 \o <<Ev("info", MsgCheckingCdn)>>
                                 \o errorEvents(MsgUnableToLoad(inputName, lang))
                  /\ Exit1
                  /\ UNCHANGED pc
             ELSE /\ trace' = t1 \o <<Ev("console.log", <<strOf(data)>>)>>
                  /\ pending' = pending \ {"readFile"}
                  /\ UNCHANGED <<pc, proc, exitCode>>
  /\ UNCHANGED <<files, tsconfig, dirs, writable, inputName, options, lang, validDir>>
  /\ UNCHANGED mkdirOutcome
  /\ UNCHANGED cfgVars

\* loadInput, line 86: readFile rejects. loadInput's promise rejects with it,
\* and as exportInput did not await that promise (line 63) nothing handles the
\* rejection: Node reports it and ends the process with status 1, without any
\* message of the program and without a process.exit call
ReadFileFailed ==
  /\ Running /\ "readFile" \in pending /\ pc \notin SyncPositions
  /\ ~IsFile(readFile(inputName, lang))
  /\ trace' = trace \o <<Ev("readFile.error", localFile(inputName, lang))>>
  /\ proc' = "exited"
  /\ exitCode' = 1
  /\ pending' = {}
  /\ UNCHANGED <<files, tsconfig, dirs, writable, pc, inputName, options, lang,
                 fileData, validDir>>
  /\ UNCHANGED mkdirOutcome
  /\ UNCHANGED cfgVars

\* Mutation of afterUpsert: every falsy result makes exportInput return silently
afterUpsertLenient(v) == IF v = "true" THEN "export" ELSE "return"

\* exportInput, lines 69-72: what exportInput does with upsertDir's result
\*   "error"  - validDir === false
\*   "return" - !validDir
\*   "export" - otherwise
afterUpsert(v) ==
  IF v = "false" THEN "error"
  ELSE IF v = Undefined THEN "return"
  ELSE "export"

\* exportInput, lines 68-72: upsertDir's promise settles with v after the
\* events t, and exportInput resumes
ResumeExportInput(v, t) ==
  /\ validDir' = v
  /\ LET dir == outDirOf(options)
     IN CASE afterUpsert(v) = "error" ->
               /\ trace' = t \o errorEvents(MsgNotWritable(dir))
               /\ pc' = "exit"
               /\ Exit1
          [] afterUpsert(v) = "return" ->
               /\ trace' = t
               /\ pc' = "returned"
               /\ pending' = pending \ {"prompts", "mkdir", "access"}
               /\ UNCHANGED <<proc, exitCode>>
          [] afterUpsert(v) = "export" ->
               /\ trace' = t \o <<Ev("green",
                                     MsgExporting(dir, inputName, exportLang(options)))>>
               /\ pc' = "returned"
               /\ pending' = pending \ {"prompts", "mkdir", "access"}
               /\ UNCHANGED <<proc, exitCode>>

\* `!confirm` for the answer the prompt resolved with
declined(answer) == answer # "true"

\* upsertDir, lines 119-126: the prompt resolves
PromptsDone(answer) ==
  /\ Running /\ pc = "prompts" /\ "prompts" \in pending
  /\ LET dir == outDirOf(options)
         t1 == trace \o <<Ev("prompts.done", <<answer>>)>>
     IN IF declined(answer)
          THEN /\ ResumeExportInput(Undefined, t1 \o <<Ev("info", MsgNotCreated)>>)
               /\ UNCHANGED dirs
          ELSE /\ trace' = t1 \o <<Ev("mkdir", <<"cwd", dir>>)>>
               /\ pending' = (pending \ {"prompts"}) \cup {"mkdir"}
               /\ pc' = "mkdir"
               /\ UNCHANGED <<dirs, proc, exitCode, validDir>>
  /\ UNCHANGED <<files, tsconfig, writable, inputName, options, lang, fileData>>
  /\ UNCHANGED mkdirOutcome
  /\ UNCHANGED cfgVars

\* upsertDir, line 126: the operating system carries out the mkdir that was
\* called (ok: the directory and its missing parents now exist). This happens
\* while the call is pending, whether or not its completion is ever delivered
\* to the program; a process that ends first leaves the call carried out or
\* not, as the timing has it.
MkdirPerformed(ok) ==
  /\ Running /\ "mkdir" \in pending /\ mkdirOutcome = "none"
  /\ IF ok
       THEN /\ dirs' = dirs \cup {outDirOf(options)}
            /\ mkdirOutcome' = "ok"
       ELSE /\ mkdirOutcome' = "error"
            /\ UNCHANGED dirs
  /\ UNCHANGED <<files, tsconfig, writable, pc, proc, exitCode, inputName, options,
                 lang, fileData, validDir, pending, trace>>
  /\ UNCHANGED cfgVars

\* upsertDir, lines 125-132: mkdir's promise settles (fulfilled when the
\* directory was made, rejected otherwise) and upsertDir resumes
MkdirDone ==
  /\ Running /\ pc = "mkdir" /\ "mkdir" \in pending /\ mkdirOutcome # "none"
  /\ LET dir == outDirOf(options)
     IN IF mkdirOutcome = "ok"
          THEN /\ trace' = trace \o <<Ev("mkdir.done", <<"ok">>),
                                      Ev("access", <<"cwd", dir>>)>>
               /\ pending' = (pending \ {"mkdir"}) \cup {"access"}
               /\ pc' = "access"
               /\ UNCHANGED <<proc, exitCode>>
          ELSE /\ trace' = trace \o <<Ev("mkdir.done", <<"error">>)>>
                                 \o errorEvents(MsgUnableToCreate(dir))
               /\ pc' = "exit"
               /\ Exit1
  /\ UNCHANGED <<files, tsconfig, dirs, writable, inputName, options, lang, fileData,
                 validDir, mkdirOutcome>>
  /\ UNCHANGED cfgVars

\* Mutation of accessOk: the writability check always passes
accessOkAlways(dir) == TRUE

\* access(dir, constants.W_OK) fulfils
accessOk(dir) == dir \in dirs /\ dir \in writable

\* upsertDir, lines 131-136, then exportInput lines 68-72: access settles
AccessDone ==
  /\ Running /\ pc = "access" /\ "access" \in pending
  /\ LET dir == outDirOf(options)
     IN IF accessOk(dir)
          THEN ResumeExportInput("true", trace \o <<Ev("access.done", <<"ok">>)>>)
          ELSE ResumeExportInput("false", trace \o <<Ev("access.done", <<"error">>)>>)
  /\ UNCHANGED <<files, tsconfig, dirs, writable, inputName, options, lang, fileData>>
  /\ UNCHANGED mkdirOutcome
  /\ UNCHANGED cfgVars

\* Node ends the process once exportInput has returned and nothing is pending;
\* no process.exit call was made, so the exit status is 0
ProcessEnd ==
  /\ Running /\ pc = "returned" /\ pending = {}
  /\ proc' = "exited"
  /\ UNCHANGED <<files, tsconfig, dirs, writable, pc, exitCode, inputName, options,
                 lang, fileData, validDir, pending, trace>>
  /\ UNCHANGED mkdirOutcome
  /\ UNCHANGED cfgVars

\* ------------------------------------------------------------------------
\* Configuration factory
\* ------------------------------------------------------------------------

\* Most accessors created in one run
MaxAccessors == 2

\* Most accessor calls made in one run
MaxCalls == 3

\* A JavaScript value: its typeof, its identity, and for the objects a counting
\* function builds, the count it was built from
Value(type, id, n) == <<type, id, n>>
typeOf(v) == v[1]
idOf(v) == v[2]

\* Options objects: DefineConfigOptions, LegacyDefaultConfigOptions
PlainConfigs ==
  { Value("object", "modern", 0), Value("object", "legacy", 0) }

\* FunctionalConfigOptions: a function that builds a new options object on each
\* invocation (a counter), and one that returns the same object every time
FunctionIds == {"counterFn", "constFn"}
FunctionConfigs == { Value("function", f, 0) : f \in FunctionIds }

Configs == PlainConfigs \cup FunctionConfigs

\* typeof config === 'function'
isFunction(config) == typeOf(config) = "function"

\* config(): the value the k-th invocation of the function returns
invoke(config, k) ==
  IF idOf(config) = "counterFn"
    THEN Value("object", "counter", k)
    ELSE Value("object", "legacy", 0)

\* Mutation of accessor: the function's first return value is memoized
accessorMemoized(config, inv) ==
  IF isFunction(config)
    THEN IF inv[idOf(config)] > 0
           THEN <<invoke(config, inv[idOf(config)]), inv>>
           ELSE <<invoke(config, 1), [inv EXCEPT ![idOf(config)] = 1]>>
    ELSE <<config, inv>>

\* () => (typeof config === 'function' ? config() : config)
\* inv: the number of invocations each function has had so far; the result is
\* the pair of the value returned and the invocation counts after the call
accessor(config, inv) ==
  IF isFunction(config)
    THEN <<invoke(config, inv[idOf(config)] + 1),
           [inv EXCEPT ![idOf(config)] = @ + 1]>>
    ELSE <<config, inv>>

\* A logged accessor call: the accessor called and the value it returned
Result(i, v) == <<i, v>>
accOf(r) == r[1]
valueOf(r) == r[2]

\* defineFormKitConfig(config): returns a new accessor closed over config
DefineFormKitConfig(config) ==
  /\ Len(accessors) < MaxAccessors
  /\ accessors' = Append(accessors, config)
  /\ calls' = Append(calls, 0)
  /\ UNCHANGED <<invocations, results>>
  /\ UNCHANGED cliVars

\* A call of the i-th accessor returned by defineFormKitConfig
CallAccessor(i) ==
  /\ i \in 1..Len(accessors)
  /\ Len(results) < MaxCalls
  /\ LET r == accessor(accessors[i], invocations)
     IN /\ invocations' = r[2]
        /\ results' = Append(results, Result(i, r[1]))
  /\ calls' = [calls EXCEPT ![i] = @ + 1]
  /\ UNCHANGED accessors
  /\ UNCHANGED cliVars

\* The CLI process is not started in the runs of the configuration factory
InitCliIdle ==
  /\ files = [p \in inputs \X Langs |-> NoFile]
  /\ tsconfig = FALSE
  /\ dirs = {}
  /\ writable = {}
  /\ InitCli

\* No accessor has been created and no function invoked
InitConfig ==
  /\ accessors = << >>
  /\ calls = << >>
  /\ invocations = [f \in FunctionIds |-> 0]
  /\ results = << >>
  /\ InitCliIdle

NextConfig ==
  \/ \E config \in Configs : DefineFormKitConfig(config)
  \/ \E i \in 1..MaxAccessors : CallAccessor(i)

SpecConfig == InitConfig /\ [][NextConfig]_vars

\* ------------------------------------------------------------------------
\* CLI: specification
\* ------------------------------------------------------------------------

\* The configuration factory is not used in the runs of the CLI
InitCfgIdle ==
  /\ accessors = << >>
  /\ calls = << >>
  /\ invocations = << >>
  /\ results = << >>

Init == InitFs /\ InitCli /\ InitCfgIdle

Next ==
  \/ \E name \in InputNames, d \in DirFlags, l \in LangFlags :
       ExportInput(name, Options(d, l))
  \/ LoadInputStart
  \/ UpsertDirStart
  \/ ReadFileDone
  \/ ReadFileFailed
  \/ \E answer \in Answers : PromptsDone(answer)
  \/ \E ok \in BOOLEAN : MkdirPerformed(ok)
  \/ MkdirDone
  \/ AccessDone
  \/ ProcessEnd

Spec == Init /\ [][Next]_vars

\* ------------------------------------------------------------------------
\* Properties: vocabulary
\* ------------------------------------------------------------------------

\* The event e with argument a was logged
Logged(e, a) == \E i \in DOMAIN trace : trace[i] = Ev(e, a)

\* Some event of kind e was logged
LoggedKind(e) == \E i \in DOMAIN trace : evOf(trace[i]) = e

\* exportInput has been called
Invoked == pc # "idle"

Exited == proc = "exited"

\* The language the command line and the working directory call for
ExpectedLang ==
  IF Truthy(optLang(options)) THEN strOf(optLang(options))
  ELSE IF tsconfig THEN "ts" ELSE "js"

\* What the file system holds at the computed path of the source file
Source == files[<<inputName, ExpectedLang>>]

\* The source file exists and is readable
SourceReadable == IsFile(Source)

\* loadInput has run line 79
LangResolved == pc \notin {"idle", "loadInput"} /\ inputName \in inputs

\* trace[i] is an operation on the output directory or the prompt
IsDirOp(i) ==
  \/ evOf(trace[i]) \in {"prompts", "mkdir", "access"}
  \/ evOf(trace[i]) = "existsSync" /\ argOf(trace[i])[2] \in Dirs

\* trace[i] is a file or directory operation, or the prompt
IsIoOp(i) ==
  evOf(trace[i]) \in {"existsSync", "readFile", "prompts", "mkdir", "access"}

AccessFailed == Logged("access.done", <<"error">>)
MkdirFailed == Logged("mkdir.done", <<"error">>)
Declined == Logged("prompts.done", <<"false">>) \/ Logged("prompts.done", <<Undefined>>)
ConfirmationPrinted == LoggedKind("green")

\* ------------------------------------------------------------------------
\* C1
\* ------------------------------------------------------------------------

\* C1: for an input name that is not in the registry, exportInput prints an
\* error containing the name and terminates the process with a non-zero exit
\* status, and no file or directory operation and no prompt ever happens.
C1_UnknownInputIsFatal ==
  (Invoked /\ inputName \notin inputs) =>
     /\ Exited
     /\ exitCode # 0
     /\ \E i \in DOMAIN trace :
          /\ evOf(trace[i]) = "red"
          /\ \E k \in DOMAIN argOf(trace[i]) : argOf(trace[i])[k] = inputName
     /\ \A i \in DOMAIN trace : ~IsIoOp(i)

C1_Witness ==
  /\ inputName = "not-a-real-input"
  /\ Exited
  /\ Logged("process.exit", <<"1">>)

\* ------------------------------------------------------------------------
\* C2
\* ------------------------------------------------------------------------

\* C2 as stated: once the process has ended, for a registered name whose source
\* file exists and is readable, the file's exact contents were printed and the
\* exit status is 0.
C2_Original ==
  (Exited /\ inputName \in inputs /\ SourceReadable) =>
     /\ exitCode = 0
     /\ Logged("console.log", <<contentOf(Source)>>)

\* C2 amended: for a registered name whose source file exists and is readable,
\* the process ends with status 0 having printed the file's exact contents when
\* the file is not empty and neither the directory creation nor the writability
\* check failed; otherwise it ends with status 1.
C2_PrintsAndExits ==
  (Exited /\ inputName \in inputs /\ SourceReadable) =>
     IF contentOf(Source) # "" /\ ~MkdirFailed /\ ~AccessFailed
       THEN /\ exitCode = 0
            /\ Logged("console.log", <<contentOf(Source)>>)
            /\ Logged("readFile", localFile(inputName, ExpectedLang))
       ELSE exitCode = 1

C2_Witness ==
  /\ Exited
  /\ exitCode = 0
  /\ inputName \in inputs
  /\ SourceReadable
  /\ contentOf(Source) # ""
  /\ Logged("console.log", <<contentOf(Source)>>)
  /\ files[<<inputName, IF ExpectedLang = "ts" THEN "js" ELSE "ts">>] # Source

\* ------------------------------------------------------------------------
\* C3
\* ------------------------------------------------------------------------

\* C3: the suspending I/O operations run one after another, with no two pending
\* at once, and the source payload is printed before the output directory is
\* checked, the prompt shown, or mkdir or access called.
C3_Sequential ==
  /\ Cardinality(pending) <= 1
  /\ \A i \in DOMAIN trace :
       IsDirOp(i) =>
         \E j \in 1..(i - 1) :
           /\ evOf(trace[j]) = "console.log"
           /\ SourceReadable
           /\ argOf(trace[j]) = <<contentOf(Source)>>

\* ------------------------------------------------------------------------
\* C4
\* ------------------------------------------------------------------------

\* C4 as stated: a failed writability check does not terminate the process:
\* process.exit is not called and the exit status stays 0.
C4_Original ==
  AccessFailed =>
     /\ ~LoggedKind("process.exit")
     /\ exitCode = 0

\* C4 amended: a failed writability check is fatal: upsertDir returns false and
\* exportInput reports "<dir> is not a writable directory." and terminates the
\* process with status 1; a declined prompt makes upsertDir return undefined and
\* exportInput return without calling process.exit.
C4_NotWritableIsFatal ==
  /\ AccessFailed =>
       /\ validDir = "false"
       /\ pc = "exit"
       /\ Exited
       /\ exitCode = 1
       /\ Logged("red", MsgNotWritable(outDirOf(options)))
       /\ ~ConfirmationPrinted
  /\ Declined =>
       /\ validDir = Undefined
       /\ pc = "returned"
       /\ ~Logged("red", MsgNotWritable(outDirOf(options)))

C4_Witness ==
  /\ AccessFailed
  /\ outDirOf(options) \in dirs
  /\ Exited

\* ------------------------------------------------------------------------
\* C5
\* ------------------------------------------------------------------------

\* C5: when the output directory does not exist and the operator declines the
\* prompt, mkdir is never called, no error is reported, the exit status is 0
\* and the success confirmation is not printed.
C5_DeclinedIsSilent ==
  Declined =>
     /\ ~LoggedKind("mkdir")
     /\ ~LoggedKind("red")
     /\ ~LoggedKind("process.exit")
     /\ exitCode = 0
     /\ ~ConfirmationPrinted

\* ------------------------------------------------------------------------
\* C6
\* ------------------------------------------------------------------------

\* The language the claim names: the flag when given, else by tsconfig.json
ClaimedLang ==
  IF optLang(options) # None THEN strOf(optLang(options))
  ELSE IF tsconfig THEN "ts" ELSE "js"

\* C6: for a --lang flag that is absent, ts or js, the extension loadInput
\* resolves is the --lang value when one is given, and then tsconfig.json is not
\* consulted; otherwise it is ts when tsconfig.json exists in the working
\* directory and js when it does not.
C6_ResolvedLang ==
  (LangResolved /\ optLang(options) \in {None, Some("ts"), Some("js")}) =>
     /\ lang = ClaimedLang
     /\ Logged("existsSync", localFile(inputName, ClaimedLang))
     /\ (optLang(options) # None) <=> ~Logged("existsSync", TsconfigPath)

C6_Witness ==
  /\ LangResolved
  /\ lang = "js"
  /\ optLang(options) = None
  /\ ~tsconfig
  /\ Logged("existsSync", TsconfigPath)

\* ------------------------------------------------------------------------
\* C8
\* ------------------------------------------------------------------------

\* C8: the success confirmation is printed only if upsertDir returned true, the
\* output directory then existing and having passed the writability check; when
\* the writability check fails the confirmation is never printed.
C8_ConfirmationOnlyIfWritable ==
  /\ ConfirmationPrinted =>
       /\ validDir = "true"
       /\ outDirOf(options) \in dirs
       /\ outDirOf(options) \in writable
       /\ Logged("access.done", <<"ok">>)
  /\ (Invoked /\ outDirOf(options) \in dirs /\ outDirOf(options) \notin writable) =>
       ~ConfirmationPrinted

C8_Witness ==
  /\ ConfirmationPrinted
  /\ Logged("mkdir.done", <<"ok">>)
  /\ Exited

\* ------------------------------------------------------------------------
\* C9
\* ------------------------------------------------------------------------

\* C9: for a registered name whose source file does not exist, once loadInput
\* has run an error naming <name>.<lang> has been reported and the process has
\* terminated with status 1, before any check of the output directory, any
\* prompt and any mkdir.
C9_MissingSourceIsFatal ==
  (inputName \in inputs /\ pc # "loadInput" /\ Source = NoFile) =>
     /\ Exited
     /\ exitCode = 1
     /\ Logged("red", MsgUnableToLoad(inputName, ExpectedLang))
     /\ \A i \in DOMAIN trace : ~IsDirOp(i)
     /\ ~LoggedKind("readFile")

C9_Witness ==
  /\ inputName \in inputs
  /\ Source = NoFile
  /\ Exited
  /\ outDirOf(options) \notin dirs

\* ------------------------------------------------------------------------
\* C10
\* ------------------------------------------------------------------------

\* C10: the extension named in the success confirmation is the language
\* loadInput used to resolve and read the source file in the same invocation.
C10_ConfirmationLang ==
  \A i \in DOMAIN trace :
     evOf(trace[i]) = "green" => argOf(trace[i])[4] = lang

\* ------------------------------------------------------------------------
\* C7
\* ------------------------------------------------------------------------

\* The accessors created over the function f
AccessorsOf(f) ==
  { i \in DOMAIN accessors : isFunction(accessors[i]) /\ idOf(accessors[i]) = f }

\* The calls logged so far, up to the k-th, of accessors over the function f
CallsOfUpTo(f, k) == { j \in 1..k : accOf(results[j]) \in AccessorsOf(f) }

RECURSIVE SumCalls(_)
SumCalls(S) ==
  IF S = {} THEN 0
  ELSE LET i == CHOOSE x \in S : TRUE IN calls[i] + SumCalls(S \ {i})

\* C7: an accessor over a value that is not a function yields that value; an
\* accessor over a function yields the return value of one fresh invocation;
\* the invocations of a function number the calls of its accessors, so
\* defineFormKitConfig invokes nothing and nothing is memoized: two calls on a
\* counter-returning function yield two different results.
C7_Accessor ==
  /\ \A k \in DOMAIN results :
       LET config == accessors[accOf(results[k])]
       IN IF typeOf(config) = "function"
            THEN valueOf(results[k]) =
                   invoke(config, Cardinality(CallsOfUpTo(idOf(config), k)))
            ELSE valueOf(results[k]) = config
  /\ \A f \in FunctionIds : invocations[f] = SumCalls(AccessorsOf(f))
  /\ \A j, k \in DOMAIN results :
       (j # k /\ idOf(accessors[accOf(results[j])]) = "counterFn"
              /\ idOf(accessors[accOf(results[k])]) = "counterFn")
         => valueOf(results[j]) # valueOf(results[k])

C7_Witness ==
  /\ Len(results) = 3
  /\ idOf(accessors[accOf(results[1])]) = "counterFn"
  /\ idOf(accessors[accOf(results[2])]) = "counterFn"
  /\ idOf(accessors[accOf(results[3])]) = "modern"
  /\ valueOf(results[1]) # valueOf(results[2])
  /\ valueOf(results[3]) = accessors[accOf(results[3])]
  /\ invocations["counterFn"] = 2

====
